---- MODULE Spec2Model ----
(***************************************************************************)
(* Model of src/rx8035.py: the MicroPython driver of the Seiko Epson       *)
(* RX-8035 real-time clock.  The device is a store of 16 one-byte Bank-0   *)
(* registers behind an I2C bus; the driver owns a 16-byte mirror           *)
(* (_buffer), a 1-byte scratch buffer (_bytebuf) and the init_error flag.  *)
(* Every public method of class RX8035 is one action; the bus transfers a  *)
(* call makes are logged, in order, in the variable bus.  SpecLock and     *)
(* SpecRace run write_all and the alarm methods one statement at a time,   *)
(* so that another caller, or the device, can act between two statements.  *)
(***************************************************************************)
EXTENDS Integers, Sequences, FiniteSets

(***************************************************************************)
(* Register map and masks (src/rx8035.py lines 12-73).                     *)
(***************************************************************************)
_SLAVE_ADDRESS == 50              \* 0x32
_SEC_REG == 0
_DATETIME_REG == 0
_MIN_REG == 1
_HR_REG == 2
_WEEKDAY_REG == 3
_DATE_REG == 4
_MONTH_REG == 5
_YEAR_REG == 6
_DIGITAL_OFFSET_REG == 7
_WEEKLY_ALM_MIN_REG == 8
_WEEKLY_ALM_HR_REG == 9
_WEEKLY_ALM_WEEKDAY_REG == 10
_MONTHLY_ALM_MIN_REG == 11
_MONTHLY_ALM_HR_REG == 12
_USER_RAM_REG == 13
_CONTROL1_REG == 14
_CONTROL_REGS == 14
_CONTROL2_REG == 15

_minuteS_MASK == 127              \* 0x7F
_HOUR_MASK == 63                  \* 0x3F
_WEEKDAY_MASK == 7                \* 0x07
_YEAR_MASK == 255                 \* 0xFF
_DATE_MASK == 63                  \* 0x3F
_MONTH_MASK == 31                 \* 0x1F
_24H_MASK == 128                  \* 0x80

_WEEKLY_ALM_EN_MASK == 128        \* Control1 0x80
_MONTHLY_ALM_EN_MASK == 64        \* Control1 0x40
_CT2_MASK == 4
_CT1_MASK == 2
_CT0_MASK == 1

_BANK_TSFG_MASK == 128            \* Control2 0x80
_VDET_MASK == 64                  \* Control2 0x40
_XSTP_MASK == 32                  \* Control2 0x20
_PON_MASK == 16                   \* Control2 0x10
_EVENT_DETECT_FUNC_G_MASK == 8
_CONST_TIME_INT_FUNC_G_MASK == 4
_WEEKLY_ALM_FUNC_G_MASK == 2
_MONTHLY_ALM_FUNC_G_MASK == 1

SUN == 1
MON == 2
TUE == 4
WED == 8
THU == 16
FRI == 32
SAT == 64

(***************************************************************************)
(* Python's integer operators on unbounded two's-complement integers.      *)
(* \div and % round towards minus infinity, as Python's // and % do, so    *)
(* the recursions end at 0 or at -1 (all ones).                            *)
(***************************************************************************)
RECURSIVE And(_, _)
And(x, y) ==
    IF x = 0 \/ y = 0 THEN 0
    ELSE IF x = -1 THEN y
    ELSE IF y = -1 THEN x
    ELSE (x % 2) * (y % 2) + 2 * And(x \div 2, y \div 2)

RECURSIVE Or(_, _)
Or(x, y) ==
    IF x = 0 THEN y
    ELSE IF y = 0 THEN x
    ELSE IF x = -1 \/ y = -1 THEN -1
    ELSE (IF (x % 2) + (y % 2) > 0 THEN 1 ELSE 0) + 2 * Or(x \div 2, y \div 2)

RECURSIVE Xor(_, _)
Xor(x, y) ==
    IF x = y THEN 0
    ELSE IF x = 0 THEN y
    ELSE IF y = 0 THEN x
    ELSE (((x % 2) + (y % 2)) % 2) + 2 * Xor(x \div 2, y \div 2)

Not(x) == (-x) - 1

CONST_TIME_INT_MONTH == Or(Or(_CT2_MASK, _CT1_MASK), _CT0_MASK)
CONST_TIME_INT_HOUR == Or(_CT2_MASK, _CT1_MASK)
CONST_TIME_INT_MIN == Or(_CT2_MASK, _CT0_MASK)
CONST_TIME_INT_SEC == _CT2_MASK
CONST_TIME_INT_1HZ == Or(_CT1_MASK, _CT0_MASK)
CONST_TIME_INT_2HZ == _CT1_MASK

(***************************************************************************)
(* Optional arguments: None is the empty tuple, a supplied value v is <<v>>.*)
(***************************************************************************)
None == <<>>
Some(v) == <<v>>

Regs == 0..15
Byte == 0..255
Zeros == [i \in Regs |-> 0]

(***************************************************************************)
(* State.                                                                  *)
(*   device      the 16 Bank-0 registers of the RTC                        *)
(*   _buffer     the driver's mirror; _mv, _mv_datetime and _mv_controls   *)
(*               are views of it (slices 0..15, 0..6 and 14..15)           *)
(*   _bytebuf    the 1-byte scratch buffer                                 *)
(*   init_error  the flag set by the status check                          *)
(*   pc          "new" before __init__ has run, "ready" after              *)
(*   call        the last public call: its name, arguments, the message of *)
(*               the ValueError it raised ("" when it returned), what it   *)
(*               returned and what it printed                              *)
(*   pre         the device registers when that call started               *)
(*   bus         the bus transfers that call made, in order                *)
(*   nops        the number of calls made so far                           *)
(*   twin        a second driver object and device of its own, given the   *)
(*               same calls except the alarm calls that raise; switched    *)
(*               on only in the specification that compares the two        *)
(*   task        the method calls in progress where methods are run one    *)
(*               statement at a time: for each caller the method, its      *)
(*               arguments and the position in the method's statements     *)
(*   lock        the external lock: "none" when the callers use no lock,   *)
(*               "free", or the caller holding it                          *)
(***************************************************************************)
VARIABLES device, _buffer, _bytebuf, init_error, pc, call, pre, bus, nops,
          twin, task, lock

vars ==
    <<device, _buffer, _bytebuf, init_error, pc, call, pre, bus, nops, twin,
      task, lock>>

(***************************************************************************)
(* The bus and the device behind it.  The driver sends (reg << 4) & 0xFF   *)
(* as the address byte; the device takes the register index from the high  *)
(* nibble and moves on by one register per byte transferred.               *)
(***************************************************************************)
MemAddr(reg) == (reg * 16) % 256
DevIndex(addr) == addr \div 16

writeto_mem(mem, addr, data) ==
    [i \in Regs |->
        IF i >= DevIndex(addr) /\ i < DevIndex(addr) + Len(data)
        THEN data[i - DevIndex(addr) + 1]
        ELSE mem[i]]

readfrom_mem(mem, addr, n) == [k \in 1..n |-> mem[DevIndex(addr) + k - 1]]

\* The bytes of the mirror's slice _mv[first:last + 1].
Slice(buf, first, last) == [k \in 1..(last - first + 1) |-> buf[first + k - 1]]

\* The machine a call works on: device, mirror, scratch byte, transfers so far.
Machine == [dev |-> device, buf |-> _buffer, bb |-> _bytebuf, bus |-> <<>>]

\* __write_bytes(reg, view) with view = _mv[first:last + 1].
__write_bytes(m, reg, first, last) ==
    [m EXCEPT
        !.dev = writeto_mem(m.dev, MemAddr(reg), Slice(m.buf, first, last)),
        !.bus = Append(m.bus, [kind |-> "write", addr |-> MemAddr(reg),
                               data |-> Slice(m.buf, first, last)])]

\* __read_bytes(reg, view) with view = _mv[first:last + 1].
__read_bytes(m, reg, first, last) ==
    LET data == readfrom_mem(m.dev, MemAddr(reg), last - first + 1)
    IN  [m EXCEPT
            !.buf = [i \in Regs |->
                        IF i >= first /\ i <= last THEN data[i - first + 1]
                        ELSE m.buf[i]],
            !.bus = Append(m.bus, [kind |-> "read", addr |-> MemAddr(reg),
                                   data |-> data])]

\* __write_byte(reg, val): the value goes through _bytebuf.
__write_byte(m, reg, val) ==
    LET b == And(val, 255)
    IN  [m EXCEPT
            !.bb = b,
            !.dev = writeto_mem(m.dev, MemAddr(reg), <<b>>),
            !.bus = Append(m.bus, [kind |-> "write", addr |-> MemAddr(reg),
                                   data |-> <<b>>])]

\* __read_byte(reg): reads into _bytebuf; the value returned is m.bb after.
__read_byte(m, reg) ==
    LET data == readfrom_mem(m.dev, MemAddr(reg), 1)
    IN  [m EXCEPT
            !.bb = data[1],
            !.bus = Append(m.bus, [kind |-> "read", addr |-> MemAddr(reg),
                                   data |-> data])]

__bcd2dec(bcd) == (And(bcd, 240) \div 16) * 10 + And(bcd, 15)

\* __dec2bcd with the tens shifted by three bits instead of four.
__dec2bcdShift3(dec) ==
    LET tens == dec \div 10
        units == dec % 10
    IN  tens * 8 + units

__dec2bcd(dec) ==
    LET tens == dec \div 10
        units == dec % 10
    IN  tens * 16 + units

__get_weekday(date, month, year) ==
    LET m == IF month < 3 THEN month + 12 ELSE month
        y == IF month < 3 THEN year - 1 ELSE year
    IN  ((-1) + date + ((13 * m + 8) \div 5) + y + (y \div 4)
         - (y \div 100) + (y \div 400)) % 7

\* _DATETIME_MASK with the hours read through the year's mask, so that the
\* 24-hour flag stays in the value decoded.
_DATETIME_MASK_HourFlagKept ==
    <<_minuteS_MASK, _minuteS_MASK, _YEAR_MASK, _WEEKDAY_MASK, _DATE_MASK,
      _MONTH_MASK, _YEAR_MASK>>

_DATETIME_MASK ==
    <<_minuteS_MASK, _minuteS_MASK, _HOUR_MASK, _WEEKDAY_MASK, _DATE_MASK,
      _MONTH_MASK, _YEAR_MASK>>

(***************************************************************************)
(* What a method leaves behind when run on machine m: the machine after,   *)
(* the message of the ValueError raised ("" when it returned), the value   *)
(* returned and the text printed.                                          *)
(***************************************************************************)
Result(m, error, ret, printed) ==
    [m |-> m, error |-> error, ret |-> ret, printed |-> printed]

(***************************************************************************)
(* __init__ (lines 76-107): the status check.                              *)
(***************************************************************************)
\* StatusError without the oscillator-stop bit.
StatusErrorNoXstp(value) ==
    LET pon == And(value, _PON_MASK) # 0
        vdet == And(value, _VDET_MASK) # 0
    IN  pon \/ vdet

\* Lines 99-103: any((pon, xstp, vdet)).
StatusError(value) ==
    LET pon == And(value, _PON_MASK) # 0
        xstp == And(value, _XSTP_MASK) # 0
        vdet == And(value, _VDET_MASK) # 0
    IN  pon \/ xstp \/ vdet

RunInit(m) ==
    LET m0 == [m EXCEPT !.buf = Zeros, !.bb = 0]
        m1 == __read_byte(m0, _CONTROL2_REG)
        value == m1.bb
        m2 == [m1 EXCEPT !.buf[_CONTROL1_REG] = 0, !.buf[_CONTROL2_REG] = 0]
        m3 == __write_bytes(m2, _CONTROL_REGS, _CONTROL1_REG, _CONTROL2_REG)
    IN  IF StatusError(value)
        THEN Result(m3, "", None, "RTC status error.")
        ELSE Result(m1, "", None, "")

(***************************************************************************)
(* write_all (lines 152-185).  WriteAllError is the chain of range checks: *)
(* the message of the first check that fails, "" when none does.           *)
(***************************************************************************)
\* WriteAllError with the month's upper limit off by one.
WriteAllErrorMonth13(seconds, minutes, hours, weekday, date, month, year) ==
    IF seconds = None \/ seconds[1] < 0 \/ seconds[1] > 59
    THEN "Seconds is out of range [0,59]."
    ELSE IF minutes = None \/ minutes[1] < 0 \/ minutes[1] > 59
    THEN "Minutes is out of range [0,59]."
    ELSE IF hours = None \/ hours[1] < 0 \/ hours[1] > 23
    THEN "Hours is out of range [0,23]."
    ELSE IF date = None \/ date[1] < 1 \/ date[1] > 31
    THEN "Date is out of range [1,31]."
    ELSE IF month = None \/ month[1] < 1 \/ month[1] > 13
    THEN "Month is out of range [1,12]."
    ELSE IF year = None \/ year[1] < 0 \/ year[1] > 99
    THEN "Years is out of range [0,99]."
    ELSE IF weekday # None /\ (weekday[1] < 0 \/ weekday[1] > 6)
    THEN "Day is out of range [0,6]."
    ELSE ""

WriteAllError(seconds, minutes, hours, weekday, date, month, year) ==
    IF seconds = None \/ seconds[1] < 0 \/ seconds[1] > 59
    THEN "Seconds is out of range [0,59]."
    ELSE IF minutes = None \/ minutes[1] < 0 \/ minutes[1] > 59
    THEN "Minutes is out of range [0,59]."
    ELSE IF hours = None \/ hours[1] < 0 \/ hours[1] > 23
    THEN "Hours is out of range [0,23]."
    ELSE IF date = None \/ date[1] < 1 \/ date[1] > 31
    THEN "Date is out of range [1,31]."
    ELSE IF month = None \/ month[1] < 1 \/ month[1] > 12
    THEN "Month is out of range [1,12]."
    ELSE IF year = None \/ year[1] < 0 \/ year[1] > 99
    THEN "Years is out of range [0,99]."
    ELSE IF weekday # None /\ (weekday[1] < 0 \/ weekday[1] > 6)
    THEN "Day is out of range [0,6]."
    ELSE ""

\* Lines 170-171: the weekday written, the computed one when none is given.
WriteAllWeekday(weekday, date, month, year) ==
    IF weekday = None
    THEN __get_weekday(date[1], month[1], year[1] + 2000)
    ELSE weekday[1]

\* Lines 175-181: the seven datetime bytes put into the mirror.
WriteAllEncode(buf, seconds, minutes, hours, weekday, date, month, year) ==
    [buf EXCEPT
        ![_SEC_REG] = __dec2bcd(seconds[1]),
        ![_MIN_REG] = __dec2bcd(minutes[1]),
        ![_HR_REG] = Or(__dec2bcd(hours[1]), _24H_MASK),
        ![_DATE_REG] = __dec2bcd(date[1]),
        ![_WEEKDAY_REG] =
            __dec2bcd(WriteAllWeekday(weekday, date, month, year)),
        ![_MONTH_REG] = __dec2bcd(month[1]),
        ![_YEAR_REG] = __dec2bcd(year[1])]

\* Line 183: read Control2 into the scratch byte.
WriteAllReadControl2(m) == __read_byte(m, _CONTROL2_REG)

\* Line 184: write the seven datetime registers from the mirror.
WriteAllWriteDatetime(m) ==
    __write_bytes(m, _DATETIME_REG, _SEC_REG, _YEAR_REG)

\* WriteAllWriteControl2 with the byte read written back as it is.
WriteAllWriteControl2Unchanged(m) == __write_byte(m, _CONTROL2_REG, m.bb)

\* Line 185: write the byte read back to Control2 with VDET cleared.
WriteAllWriteControl2(m) ==
    __write_byte(m, _CONTROL2_REG, And(m.bb, Not(_VDET_MASK)))

\* WriteAllTransfers with the datetime registers written before Control2 is
\* read.
WriteAllTransfersDatetimeFirst(m) ==
    WriteAllWriteControl2(WriteAllReadControl2(WriteAllWriteDatetime(m)))

\* Lines 183-185: read Control2, write the datetime registers, write Control2
\* back with VDET cleared.
WriteAllTransfers(m) ==
    WriteAllWriteControl2(WriteAllWriteDatetime(WriteAllReadControl2(m)))

RunWriteAll(m, seconds, minutes, hours, weekday, date, month, year) ==
    LET error ==
            WriteAllError(seconds, minutes, hours, weekday, date, month, year)
        m0 == [m EXCEPT !.buf =
                  WriteAllEncode(m.buf, seconds, minutes, hours, weekday,
                                 date, month, year)]
    IN  IF error # ""
        THEN Result(m, error, None, "")
        ELSE Result(WriteAllTransfers(m0), "", None, "")

(***************************************************************************)
(* set_datetime (lines 187-192): dt is a tuple; Python's dt[k] is dt[k+1]  *)
(* here.  write_all(dt[5], dt[4], dt[3], dt[6], dt[2], dt[1], dt[0] % 100) *)
(* passes them as seconds, minutes, hours, weekday, date, month, year.     *)
(* write_now (lines 194-197) passes time.localtime() the same way.         *)
(***************************************************************************)
RunSetDatetime(m, dt) ==
    RunWriteAll(m, Some(dt[6]), Some(dt[5]), Some(dt[4]), Some(dt[7]),
                Some(dt[3]), Some(dt[2]), Some(dt[1] % 100))

(***************************************************************************)
(* datetime (lines 140-150).  DatetimeDecode is the tuple built from the   *)
(* seven bytes read: each masked, BCD-decoded, and put year first.         *)
(***************************************************************************)
DatetimeDecode(bytes) ==
    LET f == [k \in 1..7 |-> __bcd2dec(And(bytes[k], _DATETIME_MASK[k]))]
    IN  <<f[7], f[6], f[5], f[4], f[3], f[2], f[1]>>

RunDatetime(m) ==
    LET m1 == __read_bytes(m, _DATETIME_REG, _SEC_REG, _YEAR_REG)
    IN  Result(m1, "", DatetimeDecode(Slice(m1.buf, _SEC_REG, _YEAR_REG)), "")

(***************************************************************************)
(* digital_offset (lines 199-209).                                         *)
(***************************************************************************)
\* OffsetDecode as a one's complement: the trailing - 1 left out.
OffsetDecodeOnesComplement(value) ==
    IF And(value, 64) # 0 THEN -Xor(value, 127) ELSE value

\* Line 204: the signed value of the byte read.
OffsetDecode(value) ==
    IF And(value, 64) # 0 THEN (-Xor(value, 127)) - 1 ELSE value

\* OffsetInRange with the symmetric 7-bit range [-64, 64].
OffsetInRangeWide(v) == -64 <= v /\ v <= 64

\* Line 205: the values digital_offset accepts.
OffsetInRange(v) == -62 <= v /\ v <= 63

RunDigitalOffset(m, value) ==
    IF value = None
    THEN LET m1 == __read_byte(m, _DIGITAL_OFFSET_REG)
             m2 == [m1 EXCEPT !.buf[_DIGITAL_OFFSET_REG] = m1.bb]
         IN  Result(m2, "", Some(OffsetDecode(m1.bb)), "")
    ELSE IF OffsetInRange(value[1])
    THEN LET m1 == [m EXCEPT !.buf[_DIGITAL_OFFSET_REG] = And(value[1], 127)]
             m2 == __write_byte(m1, _DIGITAL_OFFSET_REG,
                                m1.buf[_DIGITAL_OFFSET_REG])
         IN  Result(m2, "", None, "")
    ELSE Result(m, "", None, "Value error.")

(***************************************************************************)
(* const_time_int_pps (lines 211-220).                                     *)
(***************************************************************************)
\* PulseModes with the once-a-second selector applied too.
PulseModesWithSec ==
    {CONST_TIME_INT_1HZ, CONST_TIME_INT_2HZ, CONST_TIME_INT_SEC}

\* Line 218: the modes that are applied.
PulseModes == {CONST_TIME_INT_1HZ, CONST_TIME_INT_2HZ}

RunConstTimeIntPps(m, mode) ==
    LET m1 == __read_byte(m, _CONTROL1_REG)
        cleared == And(m1.bb, Not(Or(Or(_CT2_MASK, _CT1_MASK), _CT0_MASK)))
        c1 == IF mode # None /\ mode[1] \in PulseModes
              THEN Or(cleared, mode[1])
              ELSE cleared
        m2 == [m1 EXCEPT !.buf[_CONTROL1_REG] = c1]
        m3 == __write_byte(m2, _CONTROL1_REG, m2.buf[_CONTROL1_REG])
    IN  Result(m3, "", None, "")

(***************************************************************************)
(* The statements the alarm methods share: the control registers are read  *)
(* into the mirror's bytes 14 and 15 and written back from them.           *)
(***************************************************************************)
\* Lines 227, 251, 263, 289.
ReadControls(m) ==
    __read_bytes(m, _CONTROL_REGS, _CONTROL1_REG, _CONTROL2_REG)

\* Lines 243, 254, 281, 292.
WriteControls(m) ==
    __write_bytes(m, _CONTROL_REGS, _CONTROL1_REG, _CONTROL2_REG)

(***************************************************************************)
(* daily_alarm (lines 222-244).  A call that raises has already read the   *)
(* control registers into the mirror, and, when it is the hours that are   *)
(* out of range, has already put the minutes into the mirror.              *)
(***************************************************************************)
\* DailyDisable that leaves the mirror's alarm-minute byte as it is.
DailyDisableHoursOnly(m) ==
    [m EXCEPT
        !.buf[_MONTHLY_ALM_HR_REG] = 0,
        !.buf[_CONTROL1_REG] =
            And(m.buf[_CONTROL1_REG], Not(_MONTHLY_ALM_EN_MASK))]

\* Lines 229-230.
DailyDisable(m) ==
    [m EXCEPT
        !.buf[_MONTHLY_ALM_HR_REG] = 0,
        !.buf[_MONTHLY_ALM_MIN_REG] = 0,
        !.buf[_CONTROL1_REG] =
            And(m.buf[_CONTROL1_REG], Not(_MONTHLY_ALM_EN_MASK))]

\* Line 236.
DailySetMinutes(m, mn) ==
    [m EXCEPT !.buf[_MONTHLY_ALM_MIN_REG] = And(__dec2bcd(mn), _minuteS_MASK)]

\* Line 239.
DailySetHours(m, hr) ==
    [m EXCEPT !.buf[_MONTHLY_ALM_HR_REG] = And(__dec2bcd(hr), _HOUR_MASK)]

\* DailyEnable that stores the enable bit alone.
DailyEnableOnly(m) == [m EXCEPT !.buf[_CONTROL1_REG] = _MONTHLY_ALM_EN_MASK]

\* Lines 240, 252.
DailyEnable(m) ==
    [m EXCEPT !.buf[_CONTROL1_REG] =
                  Or(m.buf[_CONTROL1_REG], _MONTHLY_ALM_EN_MASK)]

\* Lines 242, 253.
DailyClearFlag(m) ==
    [m EXCEPT !.buf[_CONTROL2_REG] =
                  And(m.buf[_CONTROL2_REG], Not(_MONTHLY_ALM_FUNC_G_MASK))]

\* Line 244.
DailyWriteAlarm(m) ==
    __write_bytes(m, _MONTHLY_ALM_MIN_REG,
                  _MONTHLY_ALM_MIN_REG, _MONTHLY_ALM_HR_REG)

\* DailyFinish with the two writes in the other order.
DailyFinishAlarmFirst(m) == WriteControls(DailyWriteAlarm(DailyClearFlag(m)))

\* Lines 242-244: clear the pending flag, write the control registers, then
\* write the alarm's minute and hour registers.
DailyFinish(m) == DailyWriteAlarm(WriteControls(DailyClearFlag(m)))

RunDailyAlarm(m, hours, minutes) ==
    LET m1 == ReadControls(m)
        mn == IF minutes = None THEN 0 ELSE minutes[1]
        hr == IF hours = None THEN 0 ELSE hours[1]
        m2 == DailySetMinutes(m1, mn)
        on == DailyEnable(DailySetHours(m2, hr))
    IN  IF hours = None /\ minutes = None
        THEN Result(DailyFinish(DailyDisable(m1)), "", None, "")
        ELSE IF mn < 0 \/ mn > 59
        THEN Result(m1, "Minutes is out of range [0,59].", None, "")
        ELSE IF hr < 0 \/ hr > 23
        THEN Result(m2, "Hours is out of range [0,23].", None, "")
        ELSE Result(DailyFinish(on), "", None, "")

(***************************************************************************)
(* restart_daily_alarm (lines 246-254).                                    *)
(***************************************************************************)
\* RunRestartDailyAlarm on the mirror as it is, the control registers not
\* read again.
RunRestartDailyAlarmNoRead(m) ==
    Result(WriteControls(DailyClearFlag(DailyEnable(m))), "", None, "")

RunRestartDailyAlarm(m) ==
    Result(WriteControls(DailyClearFlag(DailyEnable(ReadControls(m)))),
           "", None, "")

(***************************************************************************)
(* weekly_alarm (lines 256-282).  The weekday byte of the mirror is set    *)
(* only by a truthy weekdays argument (line 276); the three alarm bytes of *)
(* the mirror are then written to the device (line 282).                   *)
(***************************************************************************)
\* WeeklyDisable that leaves the mirror's alarm-minute byte as it is.
WeeklyDisableHoursOnly(m) ==
    [m EXCEPT
        !.buf[_WEEKLY_ALM_HR_REG] = 0,
        !.buf[_CONTROL1_REG] =
            And(m.buf[_CONTROL1_REG], Not(_WEEKLY_ALM_EN_MASK))]

\* Lines 265-266.
WeeklyDisable(m) ==
    [m EXCEPT
        !.buf[_WEEKLY_ALM_HR_REG] = 0,
        !.buf[_WEEKLY_ALM_MIN_REG] = 0,
        !.buf[_CONTROL1_REG] =
            And(m.buf[_CONTROL1_REG], Not(_WEEKLY_ALM_EN_MASK))]

\* Line 271.
WeeklySetMinutes(m, mn) ==
    [m EXCEPT !.buf[_WEEKLY_ALM_MIN_REG] = And(__dec2bcd(mn), _minuteS_MASK)]

\* Line 275.
WeeklySetHours(m, hr) ==
    [m EXCEPT !.buf[_WEEKLY_ALM_HR_REG] = And(__dec2bcd(hr), _HOUR_MASK)]

\* Lines 276-277.
WeeklySetWeekdays(m, weekdays) ==
    IF weekdays # None /\ weekdays[1] # 0
    THEN [m EXCEPT !.buf[_WEEKLY_ALM_WEEKDAY_REG] = And(weekdays[1], 127)]
    ELSE m

\* Lines 278, 290.
WeeklyEnable(m) ==
    [m EXCEPT !.buf[_CONTROL1_REG] =
                  Or(m.buf[_CONTROL1_REG], _WEEKLY_ALM_EN_MASK)]

\* WeeklyClearFlag that clears the pending flags of both alarms.
WeeklyClearFlagBoth(m) ==
    [m EXCEPT !.buf[_CONTROL2_REG] =
                  And(m.buf[_CONTROL2_REG],
                      Not(Or(_WEEKLY_ALM_FUNC_G_MASK,
                             _MONTHLY_ALM_FUNC_G_MASK)))]

\* Lines 280, 291.
WeeklyClearFlag(m) ==
    [m EXCEPT !.buf[_CONTROL2_REG] =
                  And(m.buf[_CONTROL2_REG], Not(_WEEKLY_ALM_FUNC_G_MASK))]

\* Line 282.
WeeklyWriteAlarm(m) ==
    __write_bytes(m, _WEEKLY_ALM_MIN_REG,
                  _WEEKLY_ALM_MIN_REG, _WEEKLY_ALM_WEEKDAY_REG)

\* Lines 280-282: clear the pending flag, write the control registers, then
\* write the alarm's minute, hour and weekday registers from the mirror.
WeeklyFinish(m) == WeeklyWriteAlarm(WriteControls(WeeklyClearFlag(m)))

RunWeeklyAlarm(m, hours, minutes, weekdays) ==
    LET m1 == ReadControls(m)
        mn == IF minutes = None THEN 0 ELSE minutes[1]
        hr == IF hours = None THEN 0 ELSE hours[1]
        m2 == WeeklySetMinutes(m1, mn)
        m3 == WeeklySetHours(m2, hr)
        on == WeeklyEnable(WeeklySetWeekdays(m3, weekdays))
    IN  IF hours = None /\ minutes = None /\ weekdays = None
        THEN Result(WeeklyFinish(WeeklyDisable(m1)), "", None, "")
        ELSE IF minutes # None /\ (mn < 0 \/ mn > 59)
        THEN Result(m1, "Minutes is out of range [0,59].", None, "")
        ELSE IF hours # None /\ (hr < 0 \/ hr > 23)
        THEN Result(m2, "Hours is out of range [0,23].", None, "")
        ELSE Result(WeeklyFinish(on), "", None, "")

(***************************************************************************)
(* restart_weekly_alarm (lines 284-292).                                   *)
(***************************************************************************)
RunRestartWeeklyAlarm(m) ==
    Result(WriteControls(WeeklyClearFlag(WeeklyEnable(ReadControls(m)))),
           "", None, "")

(***************************************************************************)
(* The device on its own: it raises status and pending bits in Control2    *)
(* (VDET, XSTP and PON on power anomalies, the function flags when an      *)
(* alarm or the periodic interrupt fires).                                 *)
(***************************************************************************)
RunDeviceRaises(m, bits) ==
    Result([m EXCEPT !.dev[_CONTROL2_REG] = Or(m.dev[_CONTROL2_REG], bits)],
           "", None, "")

(***************************************************************************)
(* The call named op with arguments args, run on machine m.                *)
(***************************************************************************)
Apply(op, args, m) ==
    CASE op = "__init__" -> RunInit(m)
      [] op = "write_all" ->
            RunWriteAll(m, args[1], args[2], args[3], args[4], args[5],
                        args[6], args[7])
      [] op \in {"set_datetime", "write_now"} -> RunSetDatetime(m, args)
      [] op = "datetime" -> RunDatetime(m)
      [] op = "digital_offset" -> RunDigitalOffset(m, args[1])
      [] op = "const_time_int_pps" -> RunConstTimeIntPps(m, args[1])
      [] op = "daily_alarm" -> RunDailyAlarm(m, args[1], args[2])
      [] op = "restart_daily_alarm" -> RunRestartDailyAlarm(m)
      [] op = "weekly_alarm" -> RunWeeklyAlarm(m, args[1], args[2], args[3])
      [] op = "restart_weekly_alarm" -> RunRestartWeeklyAlarm(m)
      [] op = "device_raises" -> RunDeviceRaises(m, args[1])

(***************************************************************************)
(* The twin: the same calls on a second driver object and device, with the *)
(* daily_alarm and weekly_alarm calls that raise left out.                 *)
(***************************************************************************)
NoTwin ==
    [on |-> FALSE, skipped |-> FALSE, dev |-> Zeros, buf |-> Zeros, bb |-> 0,
     bus |-> <<>>]

TwinMachine == [dev |-> twin.dev, buf |-> twin.buf, bb |-> twin.bb, bus |-> <<>>]

TwinAfter(op, args, error) ==
    IF ~twin.on THEN twin
    ELSE IF op \in {"daily_alarm", "weekly_alarm"} /\ error # ""
    THEN [twin EXCEPT !.skipped = TRUE, !.bus = <<>>]
    ELSE LET m == Apply(op, args, TwinMachine).m
         IN  [twin EXCEPT !.dev = m.dev, !.buf = m.buf, !.bb = m.bb,
                          !.bus = m.bus]

(***************************************************************************)
(* The public calls as actions: each runs its method on the machine of the *)
(* current state and records what the call left behind.                    *)
(***************************************************************************)
Return(m, op, args, error, ret, printed) ==
    /\ device' = m.dev
    /\ _buffer' = m.buf
    /\ _bytebuf' = m.bb
    /\ bus' = m.bus
    /\ pre' = device
    /\ call' = [op |-> op, args |-> args, error |-> error, ret |-> ret,
                printed |-> printed]
    /\ nops' = nops + 1
    /\ twin' = TwinAfter(op, args, error)
    /\ UNCHANGED <<task, lock>>

Finish(r, op, args) == Return(r.m, op, args, r.error, r.ret, r.printed)

__init__ ==
    /\ pc = "new"
    /\ LET r == RunInit(Machine)
       IN  /\ init_error' = (r.printed # "")
           /\ Finish(r, "__init__", <<>>)
    /\ pc' = "ready"

\* The body of write_all, as a call named op with arguments args.
WriteAllBody(op, args, seconds, minutes, hours, weekday, date, month, year) ==
    Finish(RunWriteAll(Machine, seconds, minutes, hours, weekday, date, month,
                       year),
           op, args)

write_all(seconds, minutes, hours, weekday, date, month, year) ==
    /\ pc = "ready"
    /\ WriteAllBody("write_all",
                    <<seconds, minutes, hours, weekday, date, month, year>>,
                    seconds, minutes, hours, weekday, date, month, year)
    /\ UNCHANGED <<init_error, pc>>

set_datetime(dt) ==
    /\ pc = "ready"
    /\ Finish(RunSetDatetime(Machine, dt), "set_datetime", dt)
    /\ UNCHANGED <<init_error, pc>>

write_now(now) ==
    /\ pc = "ready"
    /\ Finish(RunSetDatetime(Machine, now), "write_now", now)
    /\ UNCHANGED <<init_error, pc>>

datetime ==
    /\ pc = "ready"
    /\ Finish(RunDatetime(Machine), "datetime", <<>>)
    /\ UNCHANGED <<init_error, pc>>

digital_offset(value) ==
    /\ pc = "ready"
    /\ Finish(RunDigitalOffset(Machine, value), "digital_offset", <<value>>)
    /\ UNCHANGED <<init_error, pc>>

const_time_int_pps(mode) ==
    /\ pc = "ready"
    /\ Finish(RunConstTimeIntPps(Machine, mode), "const_time_int_pps",
              <<mode>>)
    /\ UNCHANGED <<init_error, pc>>

daily_alarm(hours, minutes) ==
    /\ pc = "ready"
    /\ Finish(RunDailyAlarm(Machine, hours, minutes), "daily_alarm",
              <<hours, minutes>>)
    /\ UNCHANGED <<init_error, pc>>

restart_daily_alarm ==
    /\ pc = "ready"
    /\ Finish(RunRestartDailyAlarm(Machine), "restart_daily_alarm", <<>>)
    /\ UNCHANGED <<init_error, pc>>

weekly_alarm(hours, minutes, weekdays) ==
    /\ pc = "ready"
    /\ Finish(RunWeeklyAlarm(Machine, hours, minutes, weekdays),
              "weekly_alarm", <<hours, minutes, weekdays>>)
    /\ UNCHANGED <<init_error, pc>>

restart_weekly_alarm ==
    /\ pc = "ready"
    /\ Finish(RunRestartWeeklyAlarm(Machine), "restart_weekly_alarm", <<>>)
    /\ UNCHANGED <<init_error, pc>>

device_raises(bits) ==
    /\ pc = "ready"
    /\ And(device[_CONTROL2_REG], bits) # bits
    /\ Finish(RunDeviceRaises(Machine, bits), "device_raises", <<bits>>)
    /\ UNCHANGED <<init_error, pc>>

(***************************************************************************)
(* The methods one statement at a time, for the calls whose arguments pass *)
(* validation and, for the alarms, set the alarm.  Program gives the lines *)
(* of the statements that such a call executes, in order; Statement is the *)
(* effect of the statement at a line on machine m.                         *)
(***************************************************************************)
Program(op) ==
    CASE op = "write_all" -> <<175, 183, 184, 185>>
      [] op = "daily_alarm" -> <<227, 236, 239, 240, 242, 243, 244>>
      [] op = "restart_daily_alarm" -> <<251, 252, 253, 254>>
      [] op = "weekly_alarm" -> <<263, 271, 275, 276, 278, 280, 281, 282>>
      [] op = "restart_weekly_alarm" -> <<289, 290, 291, 292>>

Statement(line, m, args) ==
    CASE line = 175 ->
            [m EXCEPT !.buf = WriteAllEncode(m.buf, args[1], args[2], args[3],
                                             args[4], args[5], args[6],
                                             args[7])]
      [] line = 183 -> WriteAllReadControl2(m)
      [] line = 184 -> WriteAllWriteDatetime(m)
      [] line = 185 -> WriteAllWriteControl2(m)
      [] line \in {227, 251, 263, 289} -> ReadControls(m)
      [] line = 236 ->
            DailySetMinutes(m, IF args[2] = None THEN 0 ELSE args[2][1])
      [] line = 239 ->
            DailySetHours(m, IF args[1] = None THEN 0 ELSE args[1][1])
      [] line \in {240, 252} -> DailyEnable(m)
      [] line \in {242, 253} -> DailyClearFlag(m)
      [] line \in {243, 254, 281, 292} -> WriteControls(m)
      [] line = 244 -> DailyWriteAlarm(m)
      [] line = 271 ->
            WeeklySetMinutes(m, IF args[2] = None THEN 0 ELSE args[2][1])
      [] line = 275 ->
            WeeklySetHours(m, IF args[1] = None THEN 0 ELSE args[1][1])
      [] line = 276 -> WeeklySetWeekdays(m, args[3])
      [] line \in {278, 290} -> WeeklyEnable(m)
      [] line \in {280, 291} -> WeeklyClearFlag(m)
      [] line = 282 -> WeeklyWriteAlarm(m)

\* The calls that take that path through their method: no check raises, and
\* an alarm call is given an argument.
StraightLine(op, args) ==
    /\ Apply(op, args, Machine).error = ""
    /\ op = "daily_alarm" => args # <<None, None>>
    /\ op = "weekly_alarm" => args # <<None, None, None>>

\* Caller c has a call in progress.
Running(c) == c \in DOMAIN task /\ task[c].at <= Len(Program(task[c].op))

\* Caller c executes the next statement of its call.  Here call is the call
\* that statement belongs to, pre the device registers before the statement
\* and bus the transfers the statement made.
Step(c) ==
    /\ pc = "ready"
    /\ Running(c)
    /\ lock \in {"none", c}
    /\ LET t == task[c]
           m == Statement(Program(t.op)[t.at], Machine, t.args)
       IN  /\ device' = m.dev
           /\ _buffer' = m.buf
           /\ _bytebuf' = m.bb
           /\ bus' = m.bus
           /\ pre' = device
           /\ call' = [op |-> t.op, args |-> t.args, error |-> "",
                       ret |-> None, printed |-> ""]
           /\ task' = [task EXCEPT ![c].at = t.at + 1]
    /\ UNCHANGED <<init_error, pc, nops, twin, lock>>

(***************************************************************************)
(* The external lock, taken by a caller before the first statement of its  *)
(* call and given back after the last.                                     *)
(***************************************************************************)
Acquire(c) ==
    /\ pc = "ready"
    /\ lock = "free"
    /\ Running(c) /\ task[c].at = 1
    /\ lock' = c
    /\ UNCHANGED <<device, _buffer, _bytebuf, init_error, pc, call, pre, bus,
                   nops, twin, task>>

Release(c) ==
    /\ lock = c
    /\ ~Running(c)
    /\ lock' = "free"
    /\ UNCHANGED <<device, _buffer, _bytebuf, init_error, pc, call, pre, bus,
                   nops, twin, task>>

(***************************************************************************)
(* Initial states: a device holding some register contents, and a driver   *)
(* object not yet constructed.                                             *)
(***************************************************************************)
Mem(dt, off, wk, dly, ram, c1, c2) ==
    [i \in Regs |->
        IF i <= _YEAR_REG THEN dt[i + 1]
        ELSE IF i = _DIGITAL_OFFSET_REG THEN off
        ELSE IF i <= _WEEKLY_ALM_WEEKDAY_REG THEN wk[i - _WEEKLY_ALM_MIN_REG + 1]
        ELSE IF i <= _MONTHLY_ALM_HR_REG THEN dly[i - _MONTHLY_ALM_MIN_REG + 1]
        ELSE IF i = _USER_RAM_REG THEN ram
        ELSE IF i = _CONTROL1_REG THEN c1
        ELSE c2]

InitDriver(devices) ==
    /\ device \in devices
    /\ _buffer = Zeros
    /\ _bytebuf = 0
    /\ init_error = FALSE
    /\ pc = "new"
    /\ call = [op |-> "", args |-> <<>>, error |-> "", ret |-> None,
               printed |-> ""]
    /\ pre = device
    /\ bus = <<>>
    /\ nops = 0

InitWith(devices) ==
    /\ InitDriver(devices)
    /\ twin = NoTwin
    /\ task = <<>>
    /\ lock = "none"

\* The number of calls, and of register changes by the device, that follow
\* the construction in one behaviour.
MaxOps == 2

More == nops <= MaxOps

\* 2024-06-15 13:45:30, a Saturday (weekday 6), as the device holds it.
Sat15June == <<48, 69, 147, 6, 21, 6, 36>>

Devices ==
    { Mem(Sat15June, off, wk, <<52, 18>>, 165, c1, c2) :
        off \in {5}, wk \in {<<0, 0, 0>>, <<48, 7, 6>>},
        c1 \in {0, 255}, c2 \in {0, 15, 80} }

Init == InitWith(Devices)

Opt(S) == {None} \cup {Some(v) : v \in S}

\* The valid write_all calls of the main specification, as
\* <<seconds, minutes, hours, weekday, date, month, year>>.
WriteAllValid ==
    { <<Some(30), Some(45), Some(13), None, Some(15), Some(6), Some(24)>>,
      <<Some(0), Some(0), Some(0), None, Some(1), Some(1), Some(24)>>,
      <<Some(0), Some(0), Some(0), None, Some(1), Some(3), Some(0)>>,
      <<Some(59), Some(59), Some(23), Some(6), Some(31), Some(12), Some(99)>> }

\* The calls that differ from a valid one in one field, which is missing or
\* just outside its range.
WriteAllBase == <<Some(30), Some(45), Some(13), Some(6), Some(15), Some(6), Some(24)>>

WriteAllInvalid ==
    { [WriteAllBase EXCEPT ![k] = v] :
        k \in {1, 2}, v \in {None, Some(-1), Some(60)} }
    \cup { [WriteAllBase EXCEPT ![3] = v] : v \in {None, Some(-1), Some(24)} }
    \cup { [WriteAllBase EXCEPT ![4] = v] : v \in {Some(-1), Some(7)} }
    \cup { [WriteAllBase EXCEPT ![5] = v] : v \in {None, Some(0), Some(32)} }
    \cup { [WriteAllBase EXCEPT ![6] = v] : v \in {None, Some(0), Some(13)} }
    \cup { [WriteAllBase EXCEPT ![7] = v] : v \in {None, Some(-1), Some(100)} }

WriteAllArgs == WriteAllValid \cup WriteAllInvalid

\* Tuples in the order of the docstring (year, month, date, weekday, hours,
\* minutes, seconds) and in the order of time.localtime().
SetDatetimeArgs ==
    { <<24, 6, 15, 6, 13, 45, 30>>, <<24, 1, 1, 1, 0, 0, 0>>,
      <<24, 6, 15, 13, 45, 30, 5>> }

\* The tuple the last call returned, when that call was datetime().
LastDatetime == IF call.op = "datetime" THEN {call.ret} ELSE {}

LocalTimes == { <<2024, 6, 15, 13, 45, 30, 5, 167>> }

OffsetArgs == Opt({5, -10, 64, -63})

PpsArgs == Opt({CONST_TIME_INT_1HZ, CONST_TIME_INT_2HZ, CONST_TIME_INT_SEC})

DailyArgs ==
    { <<None, None>>, <<Some(8), Some(0)>>, <<Some(23), Some(59)>>,
      <<None, Some(30)>>, <<Some(7), None>>,
      <<Some(8), Some(60)>>, <<Some(24), Some(15)>>, <<None, Some(-1)>>,
      <<Some(-1), None>> }

WeeklyArgs ==
    { <<None, None, None>>, <<Some(8), Some(0), None>>,
      <<Some(8), Some(0), Some(Or(MON, TUE))>>, <<Some(8), Some(0), Some(0)>>,
      <<None, None, Some(SAT)>>, <<Some(23), Some(59), Some(255)>>,
      <<Some(8), Some(60), Some(MON)>>, <<Some(24), Some(15), Some(MON)>>,
      <<None, Some(-1), None>>, <<Some(-1), None, None>> }

RaisedBits == {_VDET_MASK, _MONTHLY_ALM_FUNC_G_MASK, _WEEKLY_ALM_FUNC_G_MASK}

Next ==
    \/ __init__
    \/ More /\ \E a \in WriteAllArgs :
                   write_all(a[1], a[2], a[3], a[4], a[5], a[6], a[7])
    \/ More /\ \E dt \in SetDatetimeArgs \cup LastDatetime : set_datetime(dt)
    \/ More /\ \E now \in LocalTimes : write_now(now)
    \/ More /\ datetime
    \/ More /\ \E v \in OffsetArgs : digital_offset(v)
    \/ More /\ \E mode \in PpsArgs : const_time_int_pps(mode)
    \/ More /\ \E a \in DailyArgs : daily_alarm(a[1], a[2])
    \/ More /\ restart_daily_alarm
    \/ More /\ \E a \in WeeklyArgs : weekly_alarm(a[1], a[2], a[3])
    \/ More /\ restart_weekly_alarm
    \/ More /\ \E bits \in RaisedBits : device_raises(bits)

Spec == Init /\ [][Next]_vars

\* The ranges write_all documents (lines 155-156), in the order
\* <<seconds, minutes, hours, weekday, date, month, year>>.
FieldLo == <<0, 0, 0, 0, 1, 1, 0>>
FieldHi == <<59, 59, 23, 6, 31, 12, 99>>

(***************************************************************************)
(* SpecDatetime: write_all and datetime, with each of the seven fields     *)
(* taken through its whole range, and one step past each end, around one   *)
(* valid call.  A behaviour makes up to MaxFieldCalls such calls and then  *)
(* reads the datetime back.                                                *)
(***************************************************************************)
MaxFieldCalls == 1

FieldArgs ==
    UNION { { [WriteAllBase EXCEPT ![k] = v] :
                v \in Opt((FieldLo[k] - 1)..(FieldHi[k] + 1)) } : k \in 1..7 }
    \cup { [k \in 1..7 |-> Some(FieldLo[k])], [k \in 1..7 |-> Some(FieldHi[k])] }

DatetimeDevices == { Mem(Sat15June, 5, <<48, 7, 6>>, <<52, 18>>, 165, 0, 15) }

InitDatetime == InitWith(DatetimeDevices)

NextDatetime ==
    \/ __init__
    \/ nops <= MaxFieldCalls /\ \E a \in FieldArgs :
            write_all(a[1], a[2], a[3], a[4], a[5], a[6], a[7])
    \/ nops <= MaxFieldCalls + 1 /\ datetime

SpecDatetime == InitDatetime /\ [][NextDatetime]_vars

(***************************************************************************)
(* SpecOffset: digital_offset with every argument from -MaxOffsetArg to    *)
(* MaxOffsetArg, on a device whose offset register holds zero, a positive  *)
(* or a negative offset, the ends of the 7-bit range, or a byte with bit 7 *)
(* set.  A behaviour makes up to MaxOffsetCalls such calls and then reads  *)
(* the offset back.                                                        *)
(***************************************************************************)
MaxOffsetArg == 66

MaxOffsetCalls == 1

OffsetDevices ==
    { Mem(Sat15June, off, <<48, 7, 6>>, <<52, 18>>, 165, 0, 15) :
        off \in {0, 5, 63, 64, 66, 118, 127, 128, 197, 255} }

InitOffset == InitWith(OffsetDevices)

NextOffset ==
    \/ __init__
    \/ nops <= MaxOffsetCalls /\ \E v \in Opt((-MaxOffsetArg)..MaxOffsetArg) :
            digital_offset(v)
    \/ nops = MaxOffsetCalls + 1 /\ digital_offset(None)

SpecOffset == InitOffset /\ [][NextOffset]_vars

(***************************************************************************)
(* SpecControl: construction and const_time_int_pps on a device whose      *)
(* Control2, or whose Control1, holds any byte, with every mode from 0 to  *)
(* MaxMode and with none.                                                  *)
(***************************************************************************)
MaxMode == 8

ControlDevices ==
    { Mem(Sat15June, 5, <<48, 7, 6>>, <<52, 18>>, 165, c1, c2) :
        c1 \in {0, 165}, c2 \in Byte }
    \cup { Mem(Sat15June, 5, <<48, 7, 6>>, <<52, 18>>, 165, c1, c2) :
             c1 \in Byte, c2 \in {0, 15} }

InitControl == InitWith(ControlDevices)

NextControl ==
    \/ __init__
    \/ More /\ \E mode \in Opt(0..MaxMode) : const_time_int_pps(mode)

SpecControl == InitControl /\ [][NextControl]_vars

(***************************************************************************)
(* The alarms alone: alarms are set and reset, the device raises their     *)
(* pending flags, and the alarms are restarted.                            *)
(***************************************************************************)
MaxRestartOps == 3

RestartDevices ==
    { Mem(Sat15June, 5, <<48, 7, 6>>, <<52, 18>>, 165, c1, c2) :
        c1 \in {0, 165}, c2 \in {0, 15} }

InitRestart == InitWith(RestartDevices)

RestartDailyArgs == { <<Some(23), Some(59)>>, <<Some(8), Some(0)>>, <<None, None>> }

RestartWeeklyArgs == { <<Some(8), Some(0), Some(Or(MON, TUE))>>, <<None, None, None>> }

AlarmFlags == {_MONTHLY_ALM_FUNC_G_MASK, _WEEKLY_ALM_FUNC_G_MASK}

NextRestart ==
    \/ __init__
    \/ nops <= MaxRestartOps /\ \E a \in RestartDailyArgs : daily_alarm(a[1], a[2])
    \/ nops <= MaxRestartOps /\ \E a \in RestartWeeklyArgs :
                                    weekly_alarm(a[1], a[2], a[3])
    \/ nops <= MaxRestartOps /\ \E bits \in AlarmFlags : device_raises(bits)
    \/ nops <= MaxRestartOps /\ restart_daily_alarm
    \/ nops <= MaxRestartOps /\ restart_weekly_alarm

SpecRestart == InitRestart /\ [][NextRestart]_vars

(***************************************************************************)
(* Two runs side by side: the driver is given calls of all its methods,    *)
(* among them alarm calls that raise, and the twin is given the same calls *)
(* without those that raise.                                               *)
(***************************************************************************)
MaxTwinOps == 2

TwinDevices ==
    { Mem(Sat15June, 5, <<48, 7, 6>>, <<52, 18>>, 165, c1, c2) :
        c1 \in {0, 165}, c2 \in {0, 15} }

InitTwin ==
    /\ InitDriver(TwinDevices)
    /\ twin = [NoTwin EXCEPT !.on = TRUE, !.dev = device]
    /\ task = <<>>
    /\ lock = "none"

TwinWriteAllArgs ==
    { <<Some(0), Some(0), Some(0), None, Some(1), Some(1), Some(24)>> }

TwinOffsetArgs == Opt({-10})

TwinPpsArgs == Opt({CONST_TIME_INT_1HZ})

NextTwin ==
    \/ __init__
    \/ nops <= MaxTwinOps /\ \E a \in TwinWriteAllArgs :
            write_all(a[1], a[2], a[3], a[4], a[5], a[6], a[7])
    \/ nops <= MaxTwinOps /\ \E dt \in SetDatetimeArgs : set_datetime(dt)
    \/ nops <= MaxTwinOps /\ \E now \in LocalTimes : write_now(now)
    \/ nops <= MaxTwinOps /\ datetime
    \/ nops <= MaxTwinOps /\ \E v \in TwinOffsetArgs : digital_offset(v)
    \/ nops <= MaxTwinOps /\ \E mode \in TwinPpsArgs : const_time_int_pps(mode)
    \/ nops <= MaxTwinOps /\ \E a \in DailyArgs : daily_alarm(a[1], a[2])
    \/ nops <= MaxTwinOps /\ restart_daily_alarm
    \/ nops <= MaxTwinOps /\ \E a \in WeeklyArgs : weekly_alarm(a[1], a[2], a[3])
    \/ nops <= MaxTwinOps /\ restart_weekly_alarm
    \/ nops <= MaxTwinOps /\ \E bits \in AlarmFlags : device_raises(bits)

SpecTwin == InitTwin /\ [][NextTwin]_vars

(***************************************************************************)
(* Two callers and one driver object: one calls daily_alarm, the other     *)
(* weekly_alarm, both setting an alarm, and their statements interleave.   *)
(* Either both callers take the external lock around their call, or        *)
(* neither does.                                                           *)
(***************************************************************************)
Callers == {"daily", "weekly"}

LockDevices ==
    { Mem(Sat15June, 5, <<0, 0, 0>>, <<52, 18>>, 165, c1, c2) :
        c1 \in {0, 39}, c2 \in {0, 15} }

LockDailyArgs == <<Some(23), Some(59)>>

LockWeeklyArgs == <<Some(8), Some(30), Some(Or(MON, TUE))>>

InitLock ==
    /\ InitDriver(LockDevices)
    /\ twin = NoTwin
    /\ task = [c \in Callers |->
                 IF c = "daily"
                 THEN [op |-> "daily_alarm", args |-> LockDailyArgs, at |-> 1]
                 ELSE [op |-> "weekly_alarm", args |-> LockWeeklyArgs,
                       at |-> 1]]
    /\ \A c \in Callers : StraightLine(task[c].op, task[c].args)
    /\ lock \in {"none", "free"}

NextLock ==
    \/ __init__
    \/ \E c \in Callers : Acquire(c)
    \/ \E c \in Callers : Step(c)
    \/ \E c \in Callers : Release(c)

SpecLock == InitLock /\ [][NextLock]_vars

(***************************************************************************)
(* One caller and a device that raises bits of Control2 on its own between *)
(* the statements of the call.                                             *)
(***************************************************************************)
RaceCalls ==
    { [op |-> "write_all",
       args |-> <<Some(0), Some(0), Some(0), None, Some(1), Some(1), Some(24)>>],
      [op |-> "daily_alarm", args |-> <<Some(8), Some(0)>>],
      [op |-> "restart_daily_alarm", args |-> <<>>],
      [op |-> "weekly_alarm", args |-> <<Some(8), Some(0), Some(SAT)>>],
      [op |-> "restart_weekly_alarm", args |-> <<>>] }

RaceDevices ==
    { Mem(Sat15June, 5, <<48, 7, 6>>, <<52, 18>>, 165, c1, c2) :
        c1 \in {0, 165}, c2 \in {0, 4} }

InitRace ==
    /\ InitDriver(RaceDevices)
    /\ twin = NoTwin
    /\ task \in { [c \in {"caller"} |->
                      [op |-> k.op, args |-> k.args, at |-> 1]] :
                  k \in RaceCalls }
    /\ StraightLine(task["caller"].op, task["caller"].args)
    /\ lock = "none"

NextRace ==
    \/ __init__
    \/ Step("caller")
    \/ \E bits \in RaisedBits : device_raises(bits)

SpecRace == InitRace /\ [][NextRace]_vars

(***************************************************************************)
(* Vocabulary of the properties.  They are stated with arithmetic on bits  *)
(* and decimal digits, not with the operators the driver is modelled with. *)
(***************************************************************************)
\* Whether bit b (a power of two) is set in x, and x with it set or cleared.
HasBit(x, b) == (x \div b) % 2 = 1
WithBit(x, b) == IF HasBit(x, b) THEN x ELSE x + b
WithoutBit(x, b) == IF HasBit(x, b) THEN x - b ELSE x

\* The byte whose high nibble is the tens digit of d and low nibble its units.
Bcd(d) == 16 * (d \div 10) + (d % 10)

\* The transfers of a call that are writes.
Writes(transfers) == { k \in 1..Len(transfers) : transfers[k].kind = "write" }

Read(reg, data) == [kind |-> "read", addr |-> 16 * reg, data |-> data]
Write(reg, data) == [kind |-> "write", addr |-> 16 * reg, data |-> data]

\* What datetime() returns from a device holding mem.
DatetimeOf(mem) == DatetimeDecode(readfrom_mem(mem, MemAddr(_DATETIME_REG), 7))

\* Whether v is in the range of field k.
InField(k, v) == FieldLo[k] <= v /\ v <= FieldHi[k]

\* A write_all argument list that must fail validation.
BadWriteAll(a) ==
    \/ \E k \in {1, 2, 3, 5, 6, 7} : a[k] = None \/ ~InField(k, a[k][1])
    \/ a[4] # None /\ ~InField(4, a[4][1])

\* An alarm argument list (hours first, minutes second) that must fail.
BadAlarm(a) ==
    \/ a[1] # None /\ ~(0 <= a[1][1] /\ a[1][1] <= 23)
    \/ a[2] # None /\ ~(0 <= a[2][1] /\ a[2][1] <= 59)

\* Gregorian calendar: leap years, month lengths, and the weekday
\* (0 = Sunday) counted in days from Saturday 2000-01-01.
Leap(Y) == (Y % 4 = 0 /\ Y % 100 # 0) \/ Y % 400 = 0
MonthDays(Y, M) ==
    IF M = 2 THEN (IF Leap(Y) THEN 29 ELSE 28)
    ELSE IF M \in {4, 6, 9, 11} THEN 30 ELSE 31
RealDate(Y, M, D) == M \in 1..12 /\ D >= 1 /\ D <= MonthDays(Y, M)
RECURSIVE DaysBeforeYear(_)
DaysBeforeYear(Y) ==
    IF Y <= 2000 THEN 0
    ELSE DaysBeforeYear(Y - 1) + (IF Leap(Y - 1) THEN 366 ELSE 365)
RECURSIVE DaysBeforeMonth(_, _)
DaysBeforeMonth(Y, M) ==
    IF M <= 1 THEN 0 ELSE DaysBeforeMonth(Y, M - 1) + MonthDays(Y, M - 1)
GregorianWeekday(Y, M, D) ==
    (6 + DaysBeforeYear(Y) + DaysBeforeMonth(Y, M) + (D - 1)) % 7

(***************************************************************************)
(* C1.  weekly_alarm with weekdays omitted, or with a zero mask, leaves    *)
(* the device's weekly-alarm weekday register (0x0A) as it was before the  *)
(* call, whatever the driver's mirror holds; with a nonzero mask w it sets *)
(* the register to w & 0x7F.                                               *)
(***************************************************************************)
C1_WeekdayRegisterPreserved ==
    (call.op = "weekly_alarm" /\ call.error = "") =>
        IF call.args[3] = None \/ call.args[3][1] = 0
        THEN device[_WEEKLY_ALM_WEEKDAY_REG] = pre[_WEEKLY_ALM_WEEKDAY_REG]
        ELSE device[_WEEKLY_ALM_WEEKDAY_REG] = call.args[3][1] % 128

\* A tuple (year, month, date, weekday, hours, minutes, seconds) with every
\* field in its range.
ValidDatetime(t) ==
    /\ Len(t) = 7
    /\ InField(7, t[1]) /\ InField(6, t[2]) /\ InField(5, t[3])
    /\ InField(4, t[4]) /\ InField(3, t[5]) /\ InField(2, t[6])
    /\ InField(1, t[7])

(***************************************************************************)
(* C2.  set_datetime takes (year, month, date, weekday, hours, minutes,    *)
(* seconds), the order datetime() returns: for every such tuple with its   *)
(* fields in range, set_datetime succeeds and datetime() then returns it.  *)
(***************************************************************************)
C2_SetDatetimeRoundTrip ==
    (call.op = "set_datetime" /\ ValidDatetime(call.args)) =>
        (call.error = "" /\ DatetimeOf(device) = call.args)

(***************************************************************************)
(* C3.  write_all without a weekday stores in register 0x03 the Gregorian  *)
(* weekday of 2000+year / month / date, numbered 0 = Sunday .. 6 =         *)
(* Saturday, for every real calendar date with year in [0,99].             *)
(***************************************************************************)
C3_WeekdayIsGregorian ==
    (/\ call.op = "write_all"
     /\ call.error = ""
     /\ call.args[4] = None
     /\ RealDate(2000 + call.args[7][1], call.args[6][1], call.args[5][1])) =>
        /\ device[_WEEKDAY_REG] =
              GregorianWeekday(2000 + call.args[7][1], call.args[6][1],
                               call.args[5][1])
        /\ DatetimeOf(device)[4] = device[_WEEKDAY_REG]

(***************************************************************************)
(* C4.  A write_all, daily_alarm or weekly_alarm call whose arguments fail *)
(* validation raises ValueError and makes no bus write: every device       *)
(* register holds after the call what it held before, whichever field is   *)
(* the offending one.  No call that raises has written to the device.      *)
(***************************************************************************)
C4_ValidationFailureWritesNothing ==
    /\ (\/ call.op = "write_all" /\ BadWriteAll(call.args)
        \/ call.op \in {"daily_alarm", "weekly_alarm"} /\ BadAlarm(call.args))
       => call.error # ""
    /\ call.error # "" => (Writes(bus) = {} /\ device = pre)

\* A daily_alarm call with valid minutes and hours out of range has raised,
\* after putting the minutes into the mirror.
C4_Witness ==
    /\ call.op = "daily_alarm"
    /\ call.args = <<Some(24), Some(15)>>
    /\ call.error = "Hours is out of range [0,23]."
    /\ _buffer[_MONTHLY_ALM_MIN_REG] = 21
    /\ device[_MONTHLY_ALM_MIN_REG] = 52 /\ pre[_MONTHLY_ALM_MIN_REG] = 52

\* The hours and minutes an alarm call sets: an omitted one counts as 0.
AlarmHours(a) == IF a[1] = None THEN 0 ELSE a[1][1]
AlarmMinutes(a) == IF a[2] = None THEN 0 ELSE a[2][1]

\* The last call was daily_alarm with an argument supplied and both in range.
DailyEnabling ==
    /\ call.op = "daily_alarm"
    /\ call.args[1] # None \/ call.args[2] # None
    /\ ~BadAlarm(call.args)

(***************************************************************************)
(* C6.  daily_alarm with at least one of hours and minutes supplied and    *)
(* both in range (an omitted one counts as 0) makes, in this order: one    *)
(* 2-byte read of Control1+Control2; one 2-byte write of Control1+Control2 *)
(* equal to the values read with only the enable bit 0x40 set in Control1  *)
(* and only the pending flag 0x01 cleared in Control2; one 2-byte write of *)
(* [BCD(minutes), BCD(hours)] to 0x0B-0x0C.  The device then holds those.  *)
(***************************************************************************)
C6_DailyAlarmTransfers ==
    DailyEnabling =>
        LET c1 == WithBit(pre[_CONTROL1_REG], 64)
            c2 == WithoutBit(pre[_CONTROL2_REG], 1)
            mn == Bcd(AlarmMinutes(call.args))
            hr == Bcd(AlarmHours(call.args))
        IN  /\ call.error = ""
            /\ bus = << Read(14, <<pre[_CONTROL1_REG], pre[_CONTROL2_REG]>>),
                        Write(14, <<c1, c2>>),
                        Write(11, <<mn, hr>>) >>
            /\ device = [pre EXCEPT ![14] = c1, ![15] = c2,
                                    ![11] = mn, ![12] = hr]

\* daily_alarm(23, 59) has run on a device whose daily pending flag was set
\* and whose daily enable bit was clear.
C6_Witness ==
    /\ DailyEnabling
    /\ call.args = <<Some(23), Some(59)>>
    /\ HasBit(pre[_CONTROL2_REG], 1) /\ ~HasBit(pre[_CONTROL1_REG], 64)
    /\ device[_MONTHLY_ALM_MIN_REG] = 89 /\ device[_MONTHLY_ALM_HR_REG] = 35

(***************************************************************************)
(* C5.  Construction reads Control2 once; init_error is True exactly when  *)
(* PON (0x10), XSTP (0x20) or VDET (0x40) is set in the value read.  Then  *)
(* Control1 and Control2 are both 0x00 on the device when construction     *)
(* returns, and the object is ready for use; otherwise construction makes  *)
(* no bus write and leaves the device as it was.                           *)
(***************************************************************************)
C5_StatusCheck ==
    call.op = "__init__" =>
        /\ pc = "ready"
        /\ Len(bus) >= 1
        /\ bus[1] = Read(15, <<pre[_CONTROL2_REG]>>)
        /\ { k \in 1..Len(bus) : bus[k].kind = "read" } = {1}
        /\ init_error = (\/ HasBit(pre[_CONTROL2_REG], 16)
                         \/ HasBit(pre[_CONTROL2_REG], 32)
                         \/ HasBit(pre[_CONTROL2_REG], 64))
        /\ IF init_error
           THEN /\ device = [pre EXCEPT ![14] = 0, ![15] = 0]
                /\ call.printed # ""
           ELSE /\ Writes(bus) = {}
                /\ device = pre

\* The driver was constructed on a device with only XSTP set among the
\* status bits, found Control1 nonzero and cleared both, and has served a
\* call since.
C5_Witness ==
    /\ init_error
    /\ call.op = "const_time_int_pps"
    /\ call.error = ""
    /\ _bytebuf = device[_CONTROL1_REG]
    /\ \E d \in ControlDevices :
          /\ d[_CONTROL2_REG] = 32 + 3
          /\ d[_CONTROL1_REG] = 165
          /\ pre = [d EXCEPT ![14] = 0, ![15] = 0]

(***************************************************************************)
(* C7.  write_all with all seven fields supplied and in range, followed by *)
(* datetime() with no clock tick in between, returns (year, month, date,   *)
(* weekday, hours, minutes, seconds) with the values written; the 24-hour  *)
(* flag (bit 7) that write_all sets in the hours register does not alter   *)
(* the hours read back.                                                    *)
(***************************************************************************)
C7_WriteAllRoundTrip ==
    /\ (/\ call.op = "write_all"
        /\ ~BadWriteAll(call.args)
        /\ call.args[4] # None) =>
           /\ call.error = ""
           /\ HasBit(device[_HR_REG], 128)
           /\ DatetimeOf(device) =
                 << call.args[7][1], call.args[6][1], call.args[5][1],
                    call.args[4][1], call.args[3][1], call.args[2][1],
                    call.args[1][1] >>
    /\ call.op = "datetime" =>
           /\ call.ret = DatetimeOf(pre)
           /\ device = pre

\* write_all has written 23 hours: the register holds 0x23 with the 24-hour
\* flag, 0xA3.
C7_Witness ==
    /\ call.op = "write_all"
    /\ call.error = ""
    /\ call.args[3] = Some(23)
    /\ device[_HR_REG] = 163
    /\ DatetimeOf(device)[5] = 23

\* What digital_offset() returns from a device holding mem.
OffsetOf(mem) ==
    OffsetDecode(readfrom_mem(mem, MemAddr(_DIGITAL_OFFSET_REG), 1)[1])

\* The last call was digital_offset(v) with v in [-62, 63].
OffsetSet ==
    /\ call.op = "digital_offset"
    /\ call.args[1] # None
    /\ -62 <= call.args[1][1] /\ call.args[1][1] <= 63

(***************************************************************************)
(* C8.  For every v in [-62, 63], digital_offset(v) writes v & 0x7F to the *)
(* offset register 0x07, and digital_offset() then returns v.              *)
(***************************************************************************)
C8_OffsetRoundTrip ==
    /\ OffsetSet =>
          /\ call.error = ""
          /\ bus = << Write(7, <<call.args[1][1] % 128>>) >>
          /\ device = [pre EXCEPT ![7] = call.args[1][1] % 128]
          /\ OffsetOf(device) = call.args[1][1]
    /\ (call.op = "digital_offset" /\ call.args[1] = None) =>
          /\ call.ret = Some(OffsetOf(pre))
          /\ device = pre

\* digital_offset(-10) has replaced another value by 0x76.
C8_Witness ==
    /\ OffsetSet
    /\ call.args[1] = Some(-10)
    /\ device[_DIGITAL_OFFSET_REG] = 118
    /\ pre[_DIGITAL_OFFSET_REG] # 118

\* The last call was digital_offset(v) with v outside [-62, 63].
OffsetRejected ==
    /\ call.op = "digital_offset"
    /\ call.args[1] # None
    /\ ~(-62 <= call.args[1][1] /\ call.args[1][1] <= 63)

(***************************************************************************)
(* C9.  digital_offset(v) with v outside [-62, 63] does not raise, makes   *)
(* no bus transfer and leaves every device register unchanged, so that     *)
(* digital_offset() returns afterwards what it would have returned before. *)
(***************************************************************************)
C9_OffsetRejected ==
    OffsetRejected =>
        /\ call.error = ""
        /\ call.ret = None
        /\ bus = <<>>
        /\ device = pre
        /\ OffsetOf(device) = OffsetOf(pre)

\* digital_offset(64) and digital_offset(-63), the nearest values outside
\* the range, have been rejected on a device holding a negative offset.
C9_Witness ==
    /\ OffsetRejected
    /\ call.args[1] \in {Some(64), Some(-63)}
    /\ call.printed = "Value error."
    /\ OffsetOf(device) = -10

(***************************************************************************)
(* C10.  After const_time_int_pps(mode), for every prior Control1 value c, *)
(* the device's Control1 is (c & 0xF8) | mode when mode is 1HZ (0x03) or   *)
(* 2HZ (0x02), and c & 0xF8 for every other mode, none included; the upper *)
(* five bits of Control1, Control2 and all other registers are unchanged.  *)
(***************************************************************************)
C10_PulseModeOnly ==
    call.op = "const_time_int_pps" =>
        LET c == pre[_CONTROL1_REG]
            mode == call.args[1]
            field == IF mode = Some(3) \/ mode = Some(2) THEN mode[1] ELSE 0
        IN  /\ call.error = ""
            /\ device = [pre EXCEPT ![14] = 8 * (c \div 8) + field]

\* const_time_int_pps(CONST_TIME_INT_SEC) has cleared the mode field of a
\* Control1 that had all its bits set.
C10_Witness ==
    /\ call.op = "const_time_int_pps"
    /\ call.args[1] = Some(4)
    /\ pre[_CONTROL1_REG] = 255
    /\ device[_CONTROL1_REG] = 248
    /\ device[_CONTROL2_REG] = 15

\* The last call was daily_alarm with neither argument supplied.
DailyDisabling == call.op = "daily_alarm" /\ call.args = <<None, None>>

(***************************************************************************)
(* C11.  daily_alarm() with no arguments is idempotent.  Every such call,  *)
(* from any device state, reads Control1+Control2, writes them back with   *)
(* the enable bit 0x40 clear in Control1 (and the pending flag 0x01 clear  *)
(* in Control2, nothing else changed), and writes {0, 0} to 0x0B-0x0C; a   *)
(* second such call that directly follows a first leaves the device        *)
(* registers as the first left them.                                       *)
(***************************************************************************)
C11_DailyDisableIdempotent ==
    [][ DailyDisabling' =>
          LET c1 == WithoutBit(pre'[_CONTROL1_REG], 64)
              c2 == WithoutBit(pre'[_CONTROL2_REG], 1)
          IN  /\ call'.error = ""
              /\ bus' = << Read(14, <<pre'[_CONTROL1_REG],
                                      pre'[_CONTROL2_REG]>>),
                           Write(14, <<c1, c2>>),
                           Write(11, <<0, 0>>) >>
              /\ device' = [pre' EXCEPT ![14] = c1, ![15] = c2,
                                        ![11] = 0, ![12] = 0]
              /\ DailyDisabling => device' = device ]_vars

\* daily_alarm() has run twice in a row: the second call started on the
\* registers the first had left, an alarm that was set before being cleared.
C11_Witness ==
    /\ DailyDisabling
    /\ nops = 3
    /\ pre[_MONTHLY_ALM_MIN_REG] = 0 /\ pre[_MONTHLY_ALM_HR_REG] = 0
    /\ ~HasBit(pre[_CONTROL1_REG], 64) /\ ~HasBit(pre[_CONTROL2_REG], 1)
    /\ pre[_CONTROL1_REG] = 191
    /\ device = pre
    /\ Len(bus) = 3

\* What a restart of the alarm with enable bit en and pending flag fl does:
\* one read of the control registers, one write of them with en set and fl
\* cleared, and nothing else changed on the device.
RestartEffect(en, fl) ==
    LET c1 == WithBit(pre[_CONTROL1_REG], en)
        c2 == WithoutBit(pre[_CONTROL2_REG], fl)
    IN  /\ call.error = ""
        /\ bus = << Read(14, <<pre[_CONTROL1_REG], pre[_CONTROL2_REG]>>),
                    Write(14, <<c1, c2>>) >>
        /\ device = [pre EXCEPT ![14] = c1, ![15] = c2]

(***************************************************************************)
(* C12.  restart_daily_alarm (resp. restart_weekly_alarm) re-reads         *)
(* Control1+Control2 and writes them back with only the enable bit 0x40    *)
(* (resp. 0x80) set in Control1 and only the pending flag 0x01 (resp.      *)
(* 0x02) cleared in Control2; it writes no alarm minute, hour or weekday   *)
(* register, so the alarm is armed again with the minute and hour values   *)
(* that daily_alarm(h, m) stored.                                          *)
(***************************************************************************)
C12_RestartKeepsAlarm ==
    /\ call.op = "restart_daily_alarm" =>
           /\ RestartEffect(64, 1)
           /\ HasBit(device[_CONTROL1_REG], 64)
           /\ device[_MONTHLY_ALM_MIN_REG] = pre[_MONTHLY_ALM_MIN_REG]
           /\ device[_MONTHLY_ALM_HR_REG] = pre[_MONTHLY_ALM_HR_REG]
    /\ call.op = "restart_weekly_alarm" =>
           /\ RestartEffect(128, 2)
           /\ HasBit(device[_CONTROL1_REG], 128)
           /\ \A r \in _WEEKLY_ALM_MIN_REG.._WEEKLY_ALM_WEEKDAY_REG :
                  device[r] = pre[r]

\* daily_alarm(23, 59), then the device raising the daily pending flag, then
\* restart_daily_alarm: the three steps after construction.  The registers
\* 0x0B-0x0C hold BCD(59), BCD(23), which only that daily_alarm call stores,
\* and the flag is set when the restart starts, which daily_alarm had cleared.
C12_Witness ==
    /\ call.op = "restart_daily_alarm"
    /\ nops = 4
    /\ HasBit(pre[_CONTROL2_REG], 1) /\ ~HasBit(device[_CONTROL2_REG], 1)
    /\ HasBit(device[_CONTROL1_REG], 64)
    /\ device[_MONTHLY_ALM_MIN_REG] = Bcd(59)
    /\ device[_MONTHLY_ALM_HR_REG] = Bcd(23)

\* The bits of byte x selected by mask.
Bits(x, mask) == And(x, mask)

\* Registers first..last are the same on the device as when the call started.
SameRegs(first, last) == \A r \in first..last : device[r] = pre[r]

\* The bits of Control1 (resp. Control2) selected by mask are as they were.
SameControl1(mask) ==
    Bits(device[_CONTROL1_REG], mask) = Bits(pre[_CONTROL1_REG], mask)
SameControl2(mask) ==
    Bits(device[_CONTROL2_REG], mask) = Bits(pre[_CONTROL2_REG], mask)

DailyOps == {"daily_alarm", "restart_daily_alarm"}
WeeklyOps == {"weekly_alarm", "restart_weekly_alarm"}

(***************************************************************************)
(* C13.  The facilities are independent.  Whatever their arguments,        *)
(* daily_alarm and restart_daily_alarm never change the weekly enable bit  *)
(* 0x80, the weekly pending flag 0x02, the mode bits 0x07 or the registers *)
(* 0x08-0x0A; weekly_alarm and restart_weekly_alarm never change the daily *)
(* enable bit 0x40, the daily pending flag 0x01, the mode bits or the      *)
(* registers 0x0B-0x0C; const_time_int_pps never changes either enable     *)
(* bit; and none of the five changes the datetime registers 0x00-0x06, the *)
(* offset register 0x07 or the PON, XSTP and VDET bits of Control2.        *)
(***************************************************************************)
C13_FacilitiesIndependent ==
    /\ call.op \in DailyOps =>
           /\ SameControl1(128 + 7) /\ SameControl2(2)
           /\ SameRegs(_WEEKLY_ALM_MIN_REG, _WEEKLY_ALM_WEEKDAY_REG)
    /\ call.op \in WeeklyOps =>
           /\ SameControl1(64 + 7) /\ SameControl2(1)
           /\ SameRegs(_MONTHLY_ALM_MIN_REG, _MONTHLY_ALM_HR_REG)
    /\ call.op = "const_time_int_pps" => SameControl1(128 + 64)
    /\ call.op \in DailyOps \cup WeeklyOps \cup {"const_time_int_pps"} =>
           /\ SameRegs(_SEC_REG, _DIGITAL_OFFSET_REG)
           /\ SameControl2(16 + 32 + 64)

\* weekly_alarm has set an alarm on a device whose daily alarm was enabled
\* and pending, whose mode bits were set and whose VDET bit the device had
\* raised.
C13_Witness ==
    /\ call.op = "weekly_alarm" /\ call.error = ""
    /\ call.args[1] # None
    /\ HasBit(pre[_CONTROL1_REG], 64) /\ Bits(pre[_CONTROL1_REG], 7) = 7
    /\ HasBit(pre[_CONTROL2_REG], 1) /\ HasBit(pre[_CONTROL2_REG], 64)
    /\ HasBit(pre[_CONTROL2_REG], 2) /\ ~HasBit(device[_CONTROL2_REG], 2)
    /\ device[_WEEKLY_ALM_HR_REG] # pre[_WEEKLY_ALM_HR_REG]

\* The last call was a write_all that returned.
WriteAllDone == call.op = "write_all" /\ call.error = ""

(***************************************************************************)
(* C15.  A write_all that returns leaves Control2 equal to its value       *)
(* before the call with only VDET (0x40) cleared, leaves BCD(hours) | 0x80 *)
(* in the hours register 0x02, and changes no register other than          *)
(* 0x00-0x06 and Control2.                                                 *)
(***************************************************************************)
C15_WriteAllFrame ==
    WriteAllDone =>
        /\ device[_CONTROL2_REG] = WithoutBit(pre[_CONTROL2_REG], 64)
        /\ device[_HR_REG] = Bcd(call.args[3][1]) + 128
        /\ SameRegs(_DIGITAL_OFFSET_REG, _CONTROL1_REG)

\* write_all(59, 59, 23, 6, 31, 12, 99) has run on a device that had raised
\* VDET beside the four function flags: VDET is gone, the flags are kept, and
\* the hours register holds 0x23 | 0x80.
C15_Witness ==
    /\ WriteAllDone
    /\ call.args[3] = Some(23)
    /\ pre[_CONTROL2_REG] = 64 + 15 /\ device[_CONTROL2_REG] = 15
    /\ pre[_HR_REG] = 147 /\ device[_HR_REG] = 163
    /\ pre[_CONTROL1_REG] = 255

\* The year a write_all call was given, and the byte it left in the year
\* register: __dec2bcd of that year, the register's mask being 0xFF.
YearGiven == call.args[7][1]
YearByte == device[_YEAR_REG]

(***************************************************************************)
(* C16.  BCD round trip.  For every d in [0, 99], here the year of a       *)
(* write_all call that returns (the calls of SpecDatetime take the year    *)
(* through -1..100), __dec2bcd(d) is a byte whose two nibbles are both     *)
(* decimal digits, and __bcd2dec of that byte is d.                        *)
(***************************************************************************)
C16_BcdRoundTrip ==
    WriteAllDone =>
        /\ YearGiven \in 0..99
        /\ YearByte = __dec2bcd(YearGiven)
        /\ YearByte \in Byte
        /\ YearByte \div 16 \in 0..9 /\ YearByte % 16 \in 0..9
        /\ __bcd2dec(YearByte) = YearGiven

\* write_all has stored the year 79 as the byte 0x79.
C16_Witness ==
    /\ WriteAllDone
    /\ YearGiven = 79
    /\ YearByte = 121
    /\ __bcd2dec(121) = 79

\* The seven datetime bytes that the last call wrote, as the device holds
\* them.
DatetimeBytes == readfrom_mem(device, MemAddr(_DATETIME_REG), 7)

(***************************************************************************)
(* C17, as stated.  The bus transfers of a write_all that returns are, in  *)
(* this order: the single 7-byte write of registers 0x00-0x06, then the    *)
(* read of Control2, then the write of Control2 with VDET cleared.         *)
(***************************************************************************)
C17_DatetimeWrittenFirst ==
    WriteAllDone =>
        bus = << Write(_DATETIME_REG, DatetimeBytes),
                 Read(_CONTROL2_REG, <<pre[_CONTROL2_REG]>>),
                 Write(_CONTROL2_REG, <<WithoutBit(pre[_CONTROL2_REG], 64)>>) >>

(***************************************************************************)
(* C17, amended.  The bus transfers of a write_all that returns are, in    *)
(* this order: the read of Control2, then the single 7-byte write of       *)
(* registers 0x00-0x06, then the write of Control2 with VDET cleared; the  *)
(* Control2 value written back is the one read before the datetime write.  *)
(***************************************************************************)
C17_Control2ReadFirst ==
    WriteAllDone =>
        /\ bus = << Read(_CONTROL2_REG, <<pre[_CONTROL2_REG]>>),
                    Write(_DATETIME_REG, DatetimeBytes),
                    Write(_CONTROL2_REG,
                          <<WithoutBit(pre[_CONTROL2_REG], 64)>>) >>
        /\ bus[3].data = <<WithoutBit(bus[1].data[1], 64)>>

\* write_all(0, 0, 0, None, 1, 1, 24) has made its three transfers: Control2
\* read first, the seven datetime bytes second, Control2 written last.
C17_Witness ==
    /\ WriteAllDone
    /\ call.args = <<Some(0), Some(0), Some(0), None, Some(1), Some(1), Some(24)>>
    /\ Len(bus) = 3
    /\ bus[1].kind = "read" /\ bus[1].addr = 240
    /\ bus[2].kind = "write" /\ bus[2].addr = 0 /\ Len(bus[2].data) = 7
    /\ bus[3].kind = "write" /\ bus[3].addr = 240
    /\ bus[1].data = <<64 + 15>> /\ bus[3].data = <<15>>

\* The signed value of the low seven bits of byte b, bit 6 being the sign.
SignedSevenBits(b) == IF b % 128 >= 64 THEN (b % 128) - 128 ELSE b % 128

(***************************************************************************)
(* C20.  For every byte b in [0, 255] that the offset register holds,      *)
(* digital_offset() returns the signed value of b's low seven bits: b &    *)
(* 0x7F when bit 6 is clear, (b & 0x7F) - 128 when it is set.  The result  *)
(* is in [-64, 63] and does not depend on bit 7 of the register.           *)
(***************************************************************************)
C20_OffsetReadSevenBits ==
    (call.op = "digital_offset" /\ call.args = <<None>>) =>
        /\ call.ret = Some(SignedSevenBits(pre[_DIGITAL_OFFSET_REG]))
        /\ call.ret[1] \in -64..63

\* The data of the write transfers among transfers, in order.
WriteTransfers(transfers) ==
    SelectSeq(transfers, LAMBDA t : t.kind = "write")

\* The last call was an alarm call that raised.
AlarmRaised == call.op \in {"daily_alarm", "weekly_alarm"} /\ call.error # ""

(***************************************************************************)
(* C18.  A daily_alarm or weekly_alarm call that raises on validation has  *)
(* no later effect on the device.  With the twin given every call except   *)
(* the alarm calls that raise: such a call writes nothing, and each call   *)
(* that follows writes the same bytes to the same registers on both, so    *)
(* that the two devices hold the same registers throughout.                *)
(***************************************************************************)
C18_FailedAlarmLeavesNoTrace ==
    twin.on =>
        /\ WriteTransfers(bus) = WriteTransfers(twin.bus)
        /\ device = twin.dev
        /\ AlarmRaised => WriteTransfers(bus) = <<>> /\ device = pre

\* daily_alarm(24, 15) raised after putting 0x15 into the mirror's alarm-
\* minute byte, which the twin's mirror does not hold; the
\* restart_weekly_alarm that followed has written the control registers, on
\* a device whose daily alarm registers still hold what they held at first.
C18_Witness ==
    /\ twin.on /\ twin.skipped
    /\ nops = 3
    /\ call.op = "restart_weekly_alarm"
    /\ _buffer[_MONTHLY_ALM_MIN_REG] = 21 /\ twin.buf[_MONTHLY_ALM_MIN_REG] = 0
    /\ Len(WriteTransfers(bus)) = 1
    /\ device[_MONTHLY_ALM_MIN_REG] = 52 /\ device[_MONTHLY_ALM_HR_REG] = 18
    /\ device[_CONTROL1_REG] = 128 /\ pre[_CONTROL1_REG] = 0

\* Every caller's call has run to its end.
AllDone == task # <<>> /\ \A c \in DOMAIN task : ~Running(c)

\* Both alarms are enabled in Control1.
BothEnabled ==
    HasBit(device[_CONTROL1_REG], 64) /\ HasBit(device[_CONTROL1_REG], 128)

(***************************************************************************)
(* C14.  Two callers run daily_alarm(h, m) and weekly_alarm(h, m, w), both *)
(* setting an alarm, on the same driver and device.  Every interleaving of *)
(* their statements ends with the alarm registers of both as the calls set *)
(* them, and, when each caller holds the external lock for its whole call, *)
(* with both the daily (0x40) and the weekly (0x80) enable bit set in      *)
(* Control1.  Without the lock the read-modify-write of Control1+Control2  *)
(* is not atomic, and an interleaving that ends with an enable bit lost is *)
(* reachable: the state C14_LostUpdate.                                    *)
(***************************************************************************)
C14_LockPreventsLostUpdate ==
    AllDone =>
        /\ device[_MONTHLY_ALM_MIN_REG] = Bcd(59)
        /\ device[_MONTHLY_ALM_HR_REG] = Bcd(23)
        /\ device[_WEEKLY_ALM_MIN_REG] = Bcd(30)
        /\ device[_WEEKLY_ALM_HR_REG] = Bcd(8)
        /\ device[_WEEKLY_ALM_WEEKDAY_REG] = 6
        /\ lock # "none" => BothEnabled

\* Without the lock: both calls have run to their end on a device that had
\* neither alarm enabled, and Control1 holds the weekly enable bit alone: the
\* daily one, set in the mirror at line 240, was overwritten there by the
\* weekly call's read of the control registers (line 263) before line 243
\* wrote the mirror to the device.
C14_LostUpdate ==
    /\ lock = "none" /\ AllDone
    /\ ~HasBit(device[_CONTROL1_REG], 64) /\ HasBit(device[_CONTROL1_REG], 128)
    /\ call.op = "daily_alarm"
    /\ Len(bus) = 1 /\ bus[1].addr = MemAddr(_MONTHLY_ALM_MIN_REG)

\* The Control2 bit that a method clears: the pending flag of its alarm, or
\* VDET for write_all.
OwnFlag(op) ==
    CASE op \in DailyOps -> 1
      [] op \in WeeklyOps -> 2
      [] op = "write_all" -> 64

\* The bits of a byte, as masks.
BitMasks == {1, 2, 4, 8, 16, 32, 64, 128}

(***************************************************************************)
(* C19.  When the device may raise bits of Control2 on its own between any *)
(* two bus transfers, no statement of daily_alarm, restart_daily_alarm,    *)
(* weekly_alarm, restart_weekly_alarm or write_all clears a Control2 bit   *)
(* other than the method's own (0x01, 0x02 and VDET 0x40 respectively): a  *)
(* bit that is set on the device before the statement, such as a flag the  *)
(* device raised after the method read Control2, is set after it.          *)
(***************************************************************************)
C19_OnlyOwnFlagCleared ==
    [][ \A c \in DOMAIN task :
          task'[c] # task[c] =>
              \A b \in BitMasks \ {OwnFlag(task[c].op)} :
                  HasBit(device[_CONTROL2_REG], b) =>
                      HasBit(device'[_CONTROL2_REG], b) ]_vars

====
